---- MODULE Spec2Model ----
(***************************************************************************)
(* drop-bin: a bin that stores values of any type and runs their           *)
(* destructors later, in bulk, on clear().                                 *)
(*                                                                         *)
(*   Inner            src/src/inner.rs            the type-erased arena    *)
(*   ConcurrentVec    src/src/concurrent_vec.rs   list of slices           *)
(*   ConcurrentSlice  src/src/concurrent_slice.rs fixed-capacity slice     *)
(*   ConcurrentList   src/src/concurrent_list.rs  insert-only list         *)
(*   Bin (lib.rs)     src/src/lib.rs              the single-owner bin     *)
(*   Bin (gate)       the shared bin of the specification, section 4.5:    *)
(*                    a try-lock gate and a pending-clear flag over Inner  *)
(*                                                                         *)
(* Three specifications share the definitions:                             *)
(*   Spec       threads call add and clear on the shared bin               *)
(*   SpecInner  one owner drives Inner directly, as inner.rs's tests do    *)
(*   SpecBin    one owner drives the Bin of lib.rs                         *)
(***************************************************************************)
EXTENDS Integers, Sequences, FiniteSets, TLC

\* ------------------------------------------------------------------ bounds

\* adds made in one behaviour of Spec, by all threads together
MaxAdds == 2
\* clear() calls made in one behaviour of Spec
MaxClears == 2
\* adds and clears made in one behaviour of SpecInner and of SpecBin
SeqMaxAdds == 5
SeqMaxClears == 2
\* calls made on the container in one behaviour of SpecSlice and of SpecList
MaxUnitOps == 7
\* the largest capacity of the slice of SpecSlice
MaxSliceCap == 3
\* add calls in one behaviour of SpecShared: of zero-sized values only, and
\* of values of any size; and its clear calls
ShMaxAdds == 6
ShMaxSized == 3
ShMaxClears == 1
\* pushes made on the one slice of SpecSliceShared
ShSlicePushes == 5
\* pushes made on the one list of SpecListShared
ShListPushes == 4
\* usize is modelled UsizeBits wide
UsizeBits == 16

Pow2(n) == 2 ^ n
UsizeMax == Pow2(UsizeBits) - 1

\* the threads of Spec: two that add, one that clears
Adders == {"a1", "a2"}
Clearers == {"c"}
Threads == Adders \cup Clearers
\* the single owner of SpecInner and of SpecBin
Owner == "a1"

\* a value is known by the number of the add call that handed it over
MaxVal ==
  LET seq == IF MaxAdds > SeqMaxAdds THEN MaxAdds ELSE SeqMaxAdds
      sh == IF ShMaxAdds > ShSlicePushes THEN ShMaxAdds ELSE ShSlicePushes
  IN IF sh > seq THEN sh ELSE seq
Values == 1..MaxVal

\* size_of::<T>() and align_of::<T>() of the types added
Types ==
  { [size |-> 0, align |-> 1],
    [size |-> 0, align |-> 8],
    [size |-> 8, align |-> 8],
    [size |-> 1020, align |-> 4] }
\* the types the threads of Spec add
SharedTypes == {ty \in Types : ty.size > 0 \/ ty.align = 1}
NoType == [size |-> 0, align |-> 0]

\* addresses the allocator may give a new byte buffer (Vec<MaybeUninit<u8>>
\* asks for alignment 1)
BaseAddrs == {4096, 4097}
\* no two live buffers share an address: the k-th buffer allocated lies k
\* regions above the address chosen for it, and a region is an eighth of the
\* address space, more than any storage holds that the adds of Spec,
\* SpecInner and SpecShared make
AllocRegion == Pow2(UsizeBits - 3)
AllocAt(base, k) == base + k * AllocRegion

\* ----------------------------------------------------------------- helpers

Max(a, b) == IF a >= b THEN a ELSE b

\* usize::checked_add and usize::checked_mul; None is the Option's None
None == -1
CheckedAdd(a, b) == IF a + b > UsizeMax THEN None ELSE a + b
CheckedMul(a, b) == IF a * b > UsizeMax THEN None ELSE a * b

\* no padding at all
PaddingNone(addr, align) == 0

\* (align - addr % align) % align
Padding(addr, align) == (align - (addr % align)) % align

Last(s) == s[Len(s)]
Range(s) == {s[i] : i \in 1..Len(s)}

\* the number of times v's destructor has run
RECURSIVE Count(_, _)
Count(s, v) ==
  IF s = <<>> THEN 0
  ELSE (IF Head(s) = v THEN 1 ELSE 0) + Count(Tail(s), v)

RECURSIVE SumSeq(_)
SumSeq(s) == IF s = <<>> THEN 0 ELSE Head(s) + SumSeq(Tail(s))

\* --------------------------------------------------------------- the state

VARIABLES
  data,         \* Inner.data: ConcurrentList<Storage>, oldest first (head last)
  destructors,  \* Inner.destructors: ConcurrentVec, its slices oldest first
  dropLog,      \* the values whose destructor has run, in the order it ran
  th,           \* each thread's place in its call, and its locals
  readers,      \* the gate: how many adds hold shared access
  writer,       \* the gate: a clear holds exclusive access
  clearFlag,    \* the pending-clear flag
  nextVal,      \* the number of the next value handed to add
  clears,       \* clear() calls made so far
  fate,         \* per value: what add has done with it so far
  env,          \* what the callers and the allocator may choose from
  bin,          \* the Bin of lib.rs: destructors, data, and whether it lives
  last,         \* the last add, clear or drop called, and the state it began in
  owed,         \* the values that were stored when a clear() was requested
                \* and whose destructor has not run since
  unit,         \* a ConcurrentSlice and a ConcurrentList on their own, and
                \* what the last call on them returned
  heap          \* a ConcurrentList's head pointer and its nodes' next
                \* pointers, and which thread pushed each node

arenaVars == <<data, destructors>>
gateVars == <<readers, writer, clearFlag>>
seqVars == <<bin, last, owed>>
restVars == <<env, unit, heap>>
vars == <<data, destructors, dropLog, th, readers, writer, clearFlag,
          nextVal, clears, fate, env, bin, last, owed, unit, heap>>

\* Storage { bytes: TryMutex<Vec<MaybeUninit<u8>>>, capacity }: the Vec's
\* length and address, the TryMutex's state, the capacity
NoSeg == [capacity |-> 0, len |-> 0, base |-> 0, locked |-> FALSE]
\* (*mut (), Destructor): the pointer, the type whose drop_in_place the
\* destructor is, and the value that lies at the pointer; an
\* uninitialized slot is NoEntry
NoEntry == [ptr |-> 0, ty |-> NoType, val |-> 0]
\* ConcurrentSlice { data: Box<[UnsafeCell<MaybeUninit<T>>]>, len }
NoSlice == [capacity |-> 0, len |-> 0, slots |-> <<>>]

Idle ==
  [pc |-> "idle", val |-> 0, ty |-> NoType, ptr |-> 0, cur |-> 0, seg |-> 0,
   head |-> 0, vh |-> 0, idx |-> 0, newseg |-> NoSeg, newslice |-> NoSlice,
   ret |-> "idle"]

DropCount(v) == Count(dropLog, v)

\* the values a sequence of destructor entries stands for: running the
\* entries' destructors drops these, in this order
Vals(entries) == [i \in 1..Len(entries) |-> entries[i].val]

\* Bin::NEW of lib.rs
NewBin == [destructors |-> <<>>, data |-> <<>>, live |-> TRUE]
\* no container on its own, no call made on one
NoUnit == [slice |-> NoSlice, list |-> <<>>, op |-> "none", arg |-> 0,
           ret |-> <<>>, ok |-> TRUE, was |-> <<>>, n |-> 0]
\* ConcurrentList::new: head is null (0); a node is known by the value it
\* holds, and a node not yet allocated has no pusher
NoHeap == [head |-> 0, next |-> [v \in Values |-> 0],
           by |-> [v \in Values |-> "none"]]
\* no call made yet
NoCall == [op |-> "none", prev |-> "none", val |-> 0, ty |-> NoType,
           data |-> <<>>, entries |-> <<>>, drops |-> 0, quiet |-> TRUE]

Goto(t, label) == th' = [th EXCEPT ![t].pc = label]
\* the call returns to its caller: the thread is idle again
Return(t) == th' = [th EXCEPT ![t] = Idle]
\* Inner::add or Inner::clear returns into the call that made it (th[t].ret);
\* its locals are gone
InnerReturn(t) ==
  th' = [th EXCEPT ![t] = [Idle EXCEPT !.pc = th[t].ret, !.val = th[t].val]]

\* ------------------------------------------------------- ConcurrentSlice

\* ConcurrentSlice::new(capacity)
NewSlice(capacity) ==
  [capacity |-> capacity, len |-> 0, slots |-> [i \in 1..capacity |-> NoEntry]]

\* a slice drained without the rev(): the first reserved first
RECURSIVE SliceDrainNotReversed(_, _)
SliceDrainNotReversed(slice, n) ==
  IF n = 0 THEN <<>>
  ELSE SliceDrainNotReversed(slice, n - 1) \o <<slice.slots[n]>>

\* ConcurrentSlice::into_iter().rev(): slots [0, len), the last reserved first
RECURSIVE SliceDrain(_, _)
SliceDrain(slice, n) ==
  IF n = 0 THEN <<>> ELSE <<slice.slots[n]>> \o SliceDrain(slice, n - 1)

\* --------------------------------------------------------- ConcurrentVec

\* a drain that stops after the head slice
VecDrainHeadOnly(slices) ==
  IF slices = <<>> THEN <<>>
  ELSE SliceDrain(Last(slices), Last(slices).len)

\* ConcurrentVec::into_iter: the list's into_iter pops the head first, and
\* each slice is flat-mapped through into_iter().rev()
RECURSIVE VecDrain(_)
VecDrain(slices) ==
  IF slices = <<>> THEN <<>>
  ELSE SliceDrain(Last(slices), Last(slices).len)
         \o VecDrain(SubSeq(slices, 1, Len(slices) - 1))

\* a growth that does not double
GrowCapacityKeeps(slices) ==
  IF slices = <<>> THEN 4 ELSE Last(slices).capacity

\* the capacity of the slice ConcurrentVec::push links when it has to grow
GrowCapacity(slices) ==
  IF slices = <<>> THEN 4
  ELSE LET capacity == Last(slices).capacity
           doubled == CheckedMul(capacity, 2)
       IN IF doubled = None THEN capacity ELSE doubled

\* ----------------------------------------------------------------- Inner

\* a store without the size > 0 test: every value goes through the scan
InnerStoreAlwaysScans(t) ==
  /\ th[t].pc = "store"
  /\ th' = [th EXCEPT ![t].pc = "scan", ![t].cur = Len(data)]
  /\ UNCHANGED <<data, destructors, dropLog, gateVars, nextVal, clears, fate,
                 restVars, seqVars>>

\* Inner::store, its first lines: a zero-sized value takes no bytes and gets
\* its alignment as a pointer; any other value starts the scan of the list,
\* whose iter() loads the head
InnerStore(t) ==
  /\ th[t].pc = "store"
  /\ IF th[t].ty.size > 0
       THEN th' = [th EXCEPT ![t].pc = "scan", ![t].cur = Len(data)]
       ELSE th' = [th EXCEPT ![t].pc = "vec_head", ![t].ptr = th[t].ty.align]
  /\ UNCHANGED <<data, destructors, dropLog, gateVars, nextVal, clears, fate, restVars, seqVars>>

\* a scan that takes the lock with lock() and waits while it is held
ScanLockWaits(t) ==
  /\ th[t].pc = "scan"
  /\ IF th[t].cur = 0
       THEN /\ Goto(t, "add_storage")
            /\ UNCHANGED data
       ELSE /\ ~data[th[t].cur].locked
            /\ data' = [data EXCEPT ![th[t].cur].locked = TRUE]
            /\ th' = [th EXCEPT ![t].pc = "fit", ![t].seg = th[t].cur]
  /\ UNCHANGED <<destructors, dropLog, gateVars, nextVal, clears, fate,
                 restVars, seqVars>>

\* find_map's closure, its first line: storage.bytes.try_lock()?; a locked
\* storage is passed over, the end of the list ends the scan
ScanLock(t) ==
  /\ th[t].pc = "scan"
  /\ IF th[t].cur = 0
       THEN /\ Goto(t, "add_storage")
            /\ UNCHANGED data
       ELSE IF data[th[t].cur].locked
         THEN /\ th' = [th EXCEPT ![t].cur = th[t].cur - 1]
              /\ UNCHANGED data
         ELSE /\ data' = [data EXCEPT ![th[t].cur].locked = TRUE]
              /\ th' = [th EXCEPT ![t].pc = "fit", ![t].seg = th[t].cur]
  /\ UNCHANGED <<destructors, dropLog, gateVars, nextVal, clears, fate, restVars, seqVars>>

\* a start index that forgets the bytes in use
ValueStartNoLen(s, ty) == CheckedAdd(0, Padding(s.base, ty.align))

\* does a value of this type fit the storage, and at which index
ValueStart(s, ty) == CheckedAdd(s.len, Padding(s.base + s.len, ty.align))
Fits(s, ty) ==
  /\ ValueStart(s, ty) # None
  /\ CheckedAdd(ValueStart(s, ty), ty.size) # None
  /\ CheckedAdd(ValueStart(s, ty), ty.size) <= s.capacity

\* the closure's rest under the lock, and then the body of the if let: a
\* storage with room gets set_len and the value written, and the guard is
\* dropped; one without room is unlocked and the scan goes on
Fit(t) ==
  /\ th[t].pc = "fit"
  /\ LET seg == th[t].seg
         s == data[seg]
         ty == th[t].ty
         start == ValueStart(s, ty)
     IN IF Fits(s, ty)
          THEN /\ data' = [data EXCEPT ![seg].len = start + ty.size,
                                       ![seg].locked = FALSE]
               /\ th' = [th EXCEPT ![t].pc = "vec_head", ![t].seg = 0,
                                   ![t].cur = 0, ![t].ptr = s.base + start]
          ELSE /\ data' = [data EXCEPT ![seg].locked = FALSE]
               /\ th' = [th EXCEPT ![t].pc = "scan", ![t].seg = 0,
                                   ![t].cur = th[t].cur - 1]
  /\ UNCHANGED <<destructors, dropLog, gateVars, nextVal, clears, fate, restVars, seqVars>>

\* the capacity of the storage Inner::add_storage allocates
StorageCapacity(segs, ty) ==
  Max(CheckedAdd(ty.size, ty.align),
      IF segs = <<>> THEN 1024
      ELSE LET doubled == CheckedMul(Last(segs).capacity, 2)
           IN IF doubled = None THEN Last(segs).capacity ELSE doubled)

\* the storages allocated so far: those linked and those a thread is linking
Allocated == Len(data) + Cardinality({u \in Threads : th[u].pc = "storage_cas"})

\* Inner::add_storage up to the head load of data.push: on overflow `?`
\* returns None and the value, owned by add_storage, is dropped there;
\* otherwise a buffer is allocated and the value written at its first
\* aligned index
AddStorage(t) ==
  /\ th[t].pc = "add_storage"
  /\ LET ty == th[t].ty
     IN IF CheckedAdd(ty.size, ty.align) = None
          THEN /\ dropLog' = Append(dropLog, th[t].val)
               /\ fate' = [fate EXCEPT ![th[t].val] = "overflow"]
               /\ InnerReturn(t)
          ELSE /\ \E addr \in env.bases :
                    LET base == AllocAt(addr, Allocated)
                        start == Padding(base, ty.align)
                    IN th' = [th EXCEPT
                         ![t].pc = "storage_cas",
                         ![t].ptr = base + start,
                         ![t].head = Len(data),
                         ![t].newseg = [capacity |-> StorageCapacity(data, ty),
                                        len |-> start + ty.size,
                                        base |-> base,
                                        locked |-> FALSE]]
               /\ UNCHANGED <<dropLog, fate>>
  /\ UNCHANGED <<data, destructors, gateVars, nextVal, clears, restVars, seqVars>>

\* ConcurrentList::push for the new storage: the compare_exchange on head
StorageCas(t) ==
  /\ th[t].pc = "storage_cas"
  /\ IF th[t].head = Len(data)
       THEN /\ data' = Append(data, th[t].newseg)
            /\ th' = [th EXCEPT ![t].pc = "vec_head", ![t].newseg = NoSeg,
                                ![t].head = 0]
       ELSE /\ th' = [th EXCEPT ![t].head = Len(data)]
            /\ UNCHANGED data
  /\ UNCHANGED <<destructors, dropLog, gateVars, nextVal, clears, fate, restVars, seqVars>>

\* ConcurrentVec::push, the top of its loop: self.data.head()
VecHead(t) ==
  /\ th[t].pc = "vec_head"
  /\ th' = [th EXCEPT ![t].vh = Len(destructors),
                      ![t].pc = IF destructors = <<>> THEN "vec_grow"
                                ELSE "slice_push"]
  /\ UNCHANGED <<data, destructors, dropLog, gateVars, nextVal, clears, fate, restVars, seqVars>>

\* a push that takes the next index and leaves len as it was
SlicePushNoReserve(t) ==
  /\ th[t].pc = "slice_push"
  /\ th[t].vh <= Len(destructors)
  /\ LET s == destructors[th[t].vh]
     IN IF s.len = s.capacity
          THEN Goto(t, "vec_grow")
          ELSE th' = [th EXCEPT ![t].pc = "slot_write", ![t].idx = s.len + 1]
  /\ UNCHANGED <<data, destructors, dropLog, gateVars, nextVal, clears, fate,
                 restVars, seqVars>>

\* a fetch_update whose closure does not look at the capacity
SlicePushPastCapacity(t) ==
  /\ th[t].pc = "slice_push"
  /\ th[t].vh <= Len(destructors)
  /\ destructors' = [destructors EXCEPT
       ![th[t].vh].len = destructors[th[t].vh].len + 1]
  /\ th' = [th EXCEPT ![t].pc = "slot_write",
                      ![t].idx = destructors[th[t].vh].len + 1]
  /\ UNCHANGED <<data, dropLog, gateVars, nextVal, clears, fate, restVars,
                 seqVars>>

\* ConcurrentSlice::push, the fetch_update: reserve the next index unless
\* len == capacity
SlicePush(t) ==
  /\ th[t].pc = "slice_push"
  /\ IF th[t].vh > Len(destructors)
       \* the slice was freed under the push (only without the gate)
       THEN /\ InnerReturn(t)
            /\ UNCHANGED destructors
       ELSE LET s == destructors[th[t].vh]
            IN IF s.len = s.capacity
                 THEN /\ Goto(t, "vec_grow")
                      /\ UNCHANGED destructors
                 ELSE /\ destructors' =
                           [destructors EXCEPT ![th[t].vh].len = s.len + 1]
                      /\ th' = [th EXCEPT ![t].pc = "slot_write",
                                          ![t].idx = s.len + 1]
  /\ UNCHANGED <<data, dropLog, gateVars, nextVal, clears, fate, restVars, seqVars>>

\* a push that reserves the slot and never writes it
SlotWriteSkipped(t) ==
  /\ th[t].pc = "slot_write"
  /\ fate' = [fate EXCEPT ![th[t].val] = "registered"]
  /\ InnerReturn(t)
  /\ UNCHANGED <<data, destructors, dropLog, gateVars, nextVal, clears, restVars,
                 seqVars>>

\* ConcurrentSlice::push, the write of the reserved slot; Inner::add returns
SlotWrite(t) ==
  /\ th[t].pc = "slot_write"
  /\ IF th[t].vh > Len(destructors)
       THEN UNCHANGED destructors
       ELSE destructors' = [destructors EXCEPT
              ![th[t].vh].slots[th[t].idx] =
                 [ptr |-> th[t].ptr, ty |-> th[t].ty, val |-> th[t].val]]
  /\ fate' = [fate EXCEPT ![th[t].val] = "registered"]
  /\ InnerReturn(t)
  /\ UNCHANGED <<data, dropLog, gateVars, nextVal, clears, restVars, seqVars>>

\* ConcurrentVec::push, the growth: a slice of 4, or twice the head's
\* capacity, and the head load of data.push
VecGrow(t) ==
  /\ th[t].pc = "vec_grow"
  /\ th' = [th EXCEPT ![t].pc = "vec_cas",
                      ![t].head = Len(destructors),
                      ![t].newslice = NewSlice(GrowCapacity(destructors))]
  /\ UNCHANGED <<data, destructors, dropLog, gateVars, nextVal, clears, fate, restVars, seqVars>>

\* a push of the new slice that stores the head without comparing it
VecCasBlind(t) ==
  /\ th[t].pc = "vec_cas"
  /\ destructors' =
       Append(SubSeq(destructors, 1, th[t].head), th[t].newslice)
  /\ th' = [th EXCEPT ![t].pc = "vec_head", ![t].newslice = NoSlice,
                      ![t].head = 0]
  /\ UNCHANGED <<data, dropLog, gateVars, nextVal, clears, fate, restVars,
                 seqVars>>

\* ConcurrentList::push for the new slice: the compare_exchange on head
VecCas(t) ==
  /\ th[t].pc = "vec_cas"
  /\ IF th[t].head = Len(destructors)
       THEN /\ destructors' = Append(destructors, th[t].newslice)
            /\ th' = [th EXCEPT ![t].pc = "vec_head", ![t].newslice = NoSlice,
                                ![t].head = 0]
       ELSE /\ th' = [th EXCEPT ![t].head = Len(destructors)]
            /\ UNCHANGED destructors
  /\ UNCHANGED <<data, dropLog, gateVars, nextVal, clears, fate, restVars, seqVars>>

\* a clear that leaves the storages as they are
KeptData(segs) == segs

\* Inner::clear: take the destructors and run each, then clear every storage
ClearedData(segs) == [i \in 1..Len(segs) |-> [segs[i] EXCEPT !.len = 0]]

\* a clear that runs the destructors and keeps their entries
InnerClearKeepsEntries(t) ==
  /\ th[t].pc = "inner_clear"
  /\ dropLog' = dropLog \o Vals(VecDrain(destructors))
  /\ data' = ClearedData(data)
  /\ owed' = owed \ Range(Vals(VecDrain(destructors)))
  /\ InnerReturn(t)
  /\ UNCHANGED <<destructors, gateVars, nextVal, clears, fate, restVars, bin, last>>

\* a clear that resets the storages and runs no destructor
InnerClearForgets(t) ==
  /\ th[t].pc = "inner_clear"
  /\ destructors' = <<>>
  /\ data' = ClearedData(data)
  /\ InnerReturn(t)
  /\ UNCHANGED <<dropLog, gateVars, nextVal, clears, fate, restVars, seqVars>>

InnerClear(t) ==
  /\ th[t].pc = "inner_clear"
  /\ dropLog' = dropLog \o Vals(VecDrain(destructors))
  /\ destructors' = <<>>
  /\ data' = ClearedData(data)
  /\ owed' = owed \ Range(Vals(VecDrain(destructors)))
  /\ InnerReturn(t)
  /\ UNCHANGED <<gateVars, nextVal, clears, fate, restVars, bin, last>>

\* Inner::size
InnerSize(segs) == SumSeq([i \in 1..Len(segs) |-> segs[i].capacity])

\* ConcurrentVec::len: the sum of the slices' lengths
VecLen(slices) == SumSeq([i \in 1..Len(slices) |-> slices[i].len])

\* the call that begins, the call before it, and the state it begins in:
\* the storages, the destructor entries in the order clear would run them,
\* the destructors run so far, and whether no other call is in flight
InnerCall(op, v, ty) ==
  [op |-> op, prev |-> last.op, val |-> v, ty |-> ty, data |-> data,
   entries |-> VecDrain(destructors), drops |-> Len(dropLog),
   quiet |-> \A t \in Threads : th[t].pc = "idle"]

\* ------------------------------------------------- Bin, the shared bin
\* (specification 4.5: a try-lock gate over the arena and a pending-clear
\* flag; its code is not among the source files)

\* Bin::add(value), for a value of some type: "attempt to acquire shared
\* access to the arena without blocking. If acquired, forward to arena.add
\* ... If not acquired (a clear is in progress), drop the value immediately"
TryRead(t) ==
  /\ t \in Adders
  /\ th[t].pc = "idle"
  /\ nextVal <= MaxAdds
  /\ nextVal' = nextVal + 1
  /\ IF writer
       THEN /\ dropLog' = Append(dropLog, nextVal)
            /\ fate' = [fate EXCEPT ![nextVal] = "refused"]
            /\ th' = [th EXCEPT ![t].pc = "tc_load", ![t].val = nextVal]
            /\ UNCHANGED readers
       ELSE /\ readers' = readers + 1
            /\ \E ty \in env.types :
                 th' = [th EXCEPT ![t].pc = "store", ![t].val = nextVal,
                                  ![t].ty = ty, ![t].ret = "release_read"]
            /\ fate' = [fate EXCEPT ![nextVal] = "admitted"]
            /\ UNCHANGED dropLog
  /\ last' = NoCall
  /\ UNCHANGED <<arenaVars, writer, clearFlag, clears, restVars, bin, owed>>

\* add: "then release"; "Either path then calls try_clear"
ReleaseRead(t) ==
  /\ th[t].pc = "release_read"
  /\ readers' = readers - 1
  /\ Goto(t, "tc_load")
  /\ UNCHANGED <<arenaVars, dropLog, writer, clearFlag, nextVal, clears, fate, restVars, seqVars>>

\* clear: "set pending-clear = true, then call try_clear"
ClearCall(t) ==
  /\ t \in Clearers
  /\ th[t].pc = "idle"
  /\ clears < MaxClears
  /\ clears' = clears + 1
  /\ clearFlag' = TRUE
  /\ Goto(t, "tc_load")
  /\ last' = IF \A u \in Threads : th[u].pc = "idle"
               THEN [NoCall EXCEPT !.op = "clear"]
               ELSE NoCall
  /\ owed' = owed \cup ({e.val : e \in Range(VecDrain(destructors))} \ {0})
  /\ UNCHANGED <<arenaVars, dropLog, readers, writer, nextVal, fate, restVars, bin>>

\* try_clear: "if pending-clear is true, ..."
TcLoad(t) ==
  /\ th[t].pc = "tc_load"
  /\ IF clearFlag THEN Goto(t, "try_write") ELSE Return(t)
  /\ UNCHANGED <<arenaVars, dropLog, gateVars, nextVal, clears, fate, restVars, seqVars>>

\* a try_write that looks at the writer only
TryWriteIgnoresReaders(t) ==
  /\ th[t].pc = "try_write"
  /\ IF ~writer
       THEN /\ writer' = TRUE
            /\ Goto(t, "tc_flag")
       ELSE /\ Return(t)
            /\ UNCHANGED writer
  /\ UNCHANGED <<arenaVars, dropLog, readers, clearFlag, nextVal, clears, fate,
                 restVars, seqVars>>

\* try_clear: "attempt to acquire exclusive access without blocking ...
\* On failure (adds in progress), leave the flag set"
TryWrite(t) ==
  /\ th[t].pc = "try_write"
  /\ IF readers = 0 /\ ~writer
       THEN /\ writer' = TRUE
            /\ Goto(t, "tc_flag")
       ELSE /\ Return(t)
            /\ UNCHANGED writer
  /\ UNCHANGED <<arenaVars, dropLog, readers, clearFlag, nextVal, clears, fate, restVars, seqVars>>

\* try_clear: "on success, clear the flag and run arena.clear"
TcFlag(t) ==
  /\ th[t].pc = "tc_flag"
  /\ clearFlag' = FALSE
  /\ th' = [th EXCEPT ![t].pc = "inner_clear", ![t].ret = "release_write"]
  /\ UNCHANGED <<arenaVars, dropLog, readers, writer, nextVal, clears, fate, restVars, seqVars>>

\* try_clear: "then release"
ReleaseWrite(t) ==
  /\ th[t].pc = "release_write"
  /\ writer' = FALSE
  /\ Return(t)
  /\ UNCHANGED <<arenaVars, dropLog, readers, clearFlag, nextVal, clears, fate, restVars, seqVars>>

\* ------------------------------------------------------------------ Spec

Init ==
  /\ data = <<>>
  /\ destructors = <<>>
  /\ dropLog = <<>>
  /\ th = [t \in Threads |-> Idle]
  /\ readers = 0
  /\ writer = FALSE
  /\ clearFlag = FALSE
  /\ nextVal = 1
  /\ clears = 0
  /\ fate = [v \in Values |-> "none"]
  /\ env = [types |-> SharedTypes, bases |-> {4097}]
  /\ bin = NewBin
  /\ last = NoCall
  /\ owed = {}
  /\ unit = NoUnit
  /\ heap = NoHeap

InnerStep(t) ==
  \/ InnerStore(t)
  \/ ScanLock(t)
  \/ Fit(t)
  \/ AddStorage(t)
  \/ StorageCas(t)
  \/ VecHead(t)
  \/ SlicePush(t)
  \/ SlotWrite(t)
  \/ VecGrow(t)
  \/ VecCas(t)
  \/ InnerClear(t)

Next ==
  \E t \in Threads :
    \/ TryRead(t)
    \/ ReleaseRead(t)
    \/ ClearCall(t)
    \/ TcLoad(t)
    \/ TryWrite(t)
    \/ TcFlag(t)
    \/ ReleaseWrite(t)
    \/ InnerStep(t)

Spec == Init /\ [][Next]_vars

\* ------------------------------------------------------------- SpecInner
\* one owner calls Inner::add and Inner::clear, as inner.rs's tests do

\* bin.add(value): Inner::add begins
InnerAddCall(t) ==
  /\ t = Owner
  /\ th[t].pc = "idle"
  /\ nextVal <= SeqMaxAdds
  /\ nextVal' = nextVal + 1
  /\ \E ty \in env.types :
       /\ th' = [th EXCEPT ![t].pc = "store", ![t].val = nextVal, ![t].ty = ty]
       /\ last' = InnerCall("add", nextVal, ty)
  /\ fate' = [fate EXCEPT ![nextVal] = "admitted"]
  /\ UNCHANGED <<arenaVars, dropLog, gateVars, clears, restVars, bin, owed>>

\* bin.clear(): Inner::clear begins
InnerClearCall(t) ==
  /\ t = Owner
  /\ th[t].pc = "idle"
  /\ clears < SeqMaxClears
  /\ clears' = clears + 1
  /\ Goto(t, "inner_clear")
  /\ last' = InnerCall("clear", 0, NoType)
  /\ UNCHANGED <<arenaVars, dropLog, gateVars, nextVal, fate, restVars, bin, owed>>

InitInner ==
  /\ data = <<>>
  /\ destructors = <<>>
  /\ dropLog = <<>>
  /\ th = [t \in Threads |-> Idle]
  /\ readers = 0
  /\ writer = FALSE
  /\ clearFlag = FALSE
  /\ nextVal = 1
  /\ clears = 0
  /\ fate = [v \in Values |-> "none"]
  /\ env = [types |-> Types, bases |-> BaseAddrs]
  /\ bin = NewBin
  /\ last = NoCall
  /\ owed = {}
  /\ unit = NoUnit
  /\ heap = NoHeap

NextInner ==
  \/ InnerAddCall(Owner)
  \/ InnerClearCall(Owner)
  \/ InnerStep(Owner)

SpecInner == InitInner /\ [][NextInner]_vars

\* ------------------------------------------------------------ SpecShared
\* Inner shared between two threads: add takes &self, so adds run
\* together; clear takes &mut self, so it runs when no add does

\* inner.add(value) on one of the threads
SharedAddCall(t) ==
  /\ t \in Adders
  /\ th[t].pc = "idle"
  /\ \A u \in Threads : th[u].pc # "inner_clear"
  /\ nextVal <= (IF \A ty \in env.types : ty.size = 0
                   THEN ShMaxAdds ELSE ShMaxSized)
  /\ nextVal' = nextVal + 1
  /\ \E ty \in env.types :
       th' = [th EXCEPT ![t].pc = "store", ![t].val = nextVal, ![t].ty = ty]
  /\ fate' = [fate EXCEPT ![nextVal] = "admitted"]
  /\ last' = NoCall
  /\ UNCHANGED <<arenaVars, dropLog, gateVars, clears, restVars, bin, owed>>

\* inner.clear(): the exclusive borrow means every add has returned
SharedClearCall(t) ==
  /\ t \in Adders
  /\ \A u \in Threads : th[u].pc = "idle"
  /\ clears < ShMaxClears
  /\ clears' = clears + 1
  /\ Goto(t, "inner_clear")
  /\ last' = InnerCall("clear", 0, NoType)
  /\ UNCHANGED <<arenaVars, dropLog, gateVars, nextVal, fate, restVars, bin, owed>>

\* the threads add zero-sized values only, or values of any size
InitShared ==
  /\ data = <<>>
  /\ destructors = <<>>
  /\ dropLog = <<>>
  /\ th = [t \in Threads |-> Idle]
  /\ readers = 0
  /\ writer = FALSE
  /\ clearFlag = FALSE
  /\ nextVal = 1
  /\ clears = 0
  /\ fate = [v \in Values |-> "none"]
  /\ \E types \in {{ty \in SharedTypes : ty.size = 0}, SharedTypes} :
       env = [types |-> types, bases |-> {4097}]
  /\ bin = NewBin
  /\ last = NoCall
  /\ owed = {}
  /\ unit = NoUnit
  /\ heap = NoHeap

NextShared ==
  \E t \in Adders :
    \/ SharedAddCall(t)
    \/ SharedClearCall(t)
    \/ InnerStep(t)

SpecShared == InitShared /\ [][NextShared]_vars

\* the scheduler lets every thread that is inside a call take its next step
FairShared == SpecShared /\ \A t \in Adders : WF_vars(InnerStep(t))

\* ------------------------------------------------------- SpecSliceShared
\* one ConcurrentSlice shared between three threads that push into it; it
\* is held as the only slice of destructors

\* slice.push(value) on one of the threads
SlicePushCall(t) ==
  /\ th[t].pc = "idle"
  /\ nextVal <= ShSlicePushes
  /\ nextVal' = nextVal + 1
  /\ th' = [th EXCEPT ![t].pc = "slice_push", ![t].val = nextVal, ![t].vh = 1]
  /\ fate' = [fate EXCEPT ![nextVal] = "admitted"]
  /\ UNCHANGED <<arenaVars, dropLog, gateVars, clears, restVars, seqVars>>

\* ConcurrentSlice::push, Err(_) => return Err(value): the caller has the
\* value back
SlicePushErr(t) ==
  /\ th[t].pc = "vec_grow"
  /\ fate' = [fate EXCEPT ![th[t].val] = "refused"]
  /\ Return(t)
  /\ UNCHANGED <<arenaVars, dropLog, gateVars, nextVal, clears, restVars,
                 seqVars>>

InitSliceShared ==
  /\ data = <<>>
  /\ \E capacity \in 0..MaxSliceCap : destructors = <<NewSlice(capacity)>>
  /\ dropLog = <<>>
  /\ th = [t \in Threads |-> Idle]
  /\ readers = 0
  /\ writer = FALSE
  /\ clearFlag = FALSE
  /\ nextVal = 1
  /\ clears = 0
  /\ fate = [v \in Values |-> "none"]
  /\ env = [types |-> {NoType}, bases |-> {}]
  /\ bin = NewBin
  /\ last = NoCall
  /\ owed = {}
  /\ unit = NoUnit
  /\ heap = NoHeap

NextSliceShared ==
  \E t \in Threads :
    \/ SlicePushCall(t)
    \/ SlicePush(t)
    \/ SlotWrite(t)
    \/ SlicePushErr(t)

SpecSliceShared == InitSliceShared /\ [][NextSliceShared]_vars

\* -------------------------------------------------------- SpecListShared
\* one ConcurrentList shared between three threads that push into it, with
\* its nodes and their next pointers

\* list.push(value) on one of the threads: the node is boxed, its next
\* pointer null
ListPushCall(t) ==
  /\ th[t].pc = "idle"
  /\ nextVal <= ShListPushes
  /\ nextVal' = nextVal + 1
  /\ th' = [th EXCEPT ![t].pc = "list_load", ![t].val = nextVal]
  /\ heap' = [heap EXCEPT !.next[nextVal] = 0, !.by[nextVal] = t]
  /\ fate' = [fate EXCEPT ![nextVal] = "admitted"]
  /\ UNCHANGED <<arenaVars, dropLog, gateVars, clears, env, unit, seqVars>>

\* let mut head = self.head.load(Relaxed)
ListLoad(t) ==
  /\ th[t].pc = "list_load"
  /\ th' = [th EXCEPT ![t].pc = "list_link", ![t].head = heap.head]
  /\ UNCHANGED <<arenaVars, dropLog, gateVars, nextVal, clears, fate,
                 restVars, seqVars>>

\* the top of the loop: node.next = head
ListLink(t) ==
  /\ th[t].pc = "list_link"
  /\ heap' = [heap EXCEPT !.next[th[t].val] = th[t].head]
  /\ Goto(t, "list_cas")
  /\ UNCHANGED <<arenaVars, dropLog, gateVars, nextVal, clears, fate, env,
                 unit, seqVars>>

\* a retry that keeps the next pointer written before the failed exchange
ListCasStaleNext(t) ==
  /\ th[t].pc = "list_cas"
  /\ \/ /\ heap.head = th[t].head
        /\ heap' = [heap EXCEPT !.head = th[t].val]
        /\ fate' = [fate EXCEPT ![th[t].val] = "registered"]
        /\ Return(t)
     \/ /\ heap.head # th[t].head
        /\ th' = [th EXCEPT ![t].head = heap.head]
        /\ UNCHANGED <<heap, fate>>
  /\ UNCHANGED <<arenaVars, dropLog, gateVars, nextVal, clears, env, unit,
                 seqVars>>

\* self.head.compare_exchange_weak(head, node, ..): Ok ends the loop and
\* push returns; Err(updated_head) gives the head as it is and the loop
\* goes round, and the weak exchange may fail though the head is as
\* expected
ListCas(t) ==
  /\ th[t].pc = "list_cas"
  /\ \/ /\ heap.head = th[t].head
        /\ heap' = [heap EXCEPT !.head = th[t].val]
        /\ fate' = [fate EXCEPT ![th[t].val] = "registered"]
        /\ Return(t)
     \/ /\ th' = [th EXCEPT ![t].pc = "list_link", ![t].head = heap.head]
        /\ UNCHANGED <<heap, fate>>
  /\ UNCHANGED <<arenaVars, dropLog, gateVars, nextVal, clears, env, unit,
                 seqVars>>

InitListShared == InitInner

NextListShared ==
  \E t \in Threads :
    \/ ListPushCall(t)
    \/ ListLoad(t)
    \/ ListLink(t)
    \/ ListCas(t)

SpecListShared == InitListShared /\ [][NextListShared]_vars

\* ---------------------------------------------------------- SpecOverflow
\* Inner::add by one owner where the checked arithmetic of add_storage can
\* overflow: size_of::<T>() and the head storage's capacity are any usize

\* a capacity whose double does not fit a usize
BigCapacity == Pow2(UsizeBits - 1)
\* a zero-sized type, a small type, and a type whose size + align overflows
OverflowTypes ==
  { [size |-> 0, align |-> 1],
    [size |-> 8, align |-> 8],
    [size |-> UsizeMax - 3, align |-> 4] }

\* the bin is new, or holds one storage, full, of a small or a big capacity
InitOverflow ==
  /\ \E segs \in {<<>>} \cup
                  {<<[capacity |-> c, len |-> c, base |-> 4096,
                      locked |-> FALSE]>> : c \in {1024, BigCapacity}} :
       data = segs
  /\ destructors = <<>>
  /\ dropLog = <<>>
  /\ th = [t \in Threads |-> Idle]
  /\ readers = 0
  /\ writer = FALSE
  /\ clearFlag = FALSE
  /\ nextVal = 1
  /\ clears = 0
  /\ fate = [v \in Values |-> "none"]
  /\ env = [types |-> OverflowTypes, bases |-> {4096}]
  /\ bin = NewBin
  /\ last = NoCall
  /\ owed = {}
  /\ unit = NoUnit
  /\ heap = NoHeap

SpecOverflow == InitOverflow /\ [][NextInner]_vars

\* --------------------------------------------------------------- SpecBin
\* one owner calls add, clear and size on the Bin of lib.rs, and drops it

\* Bin::add, the find_map over self.data.iter_mut(): the first storage, from
\* the front, with room for the value; 0 when there is none
RECURSIVE FirstFit(_, _, _)
FirstFit(segs, ty, i) ==
  IF i > Len(segs) THEN 0
  ELSE IF Fits(segs[i], ty) THEN i ELSE FirstFit(segs, ty, i + 1)

\* Bin::add, the capacity of a new storage: the last storage's length doubled
BinCapacity(segs, ty) ==
  Max(CheckedAdd(ty.size, ty.align),
      IF segs = <<>> THEN 1024
      ELSE LET doubled == CheckedMul(Last(segs).len, 2)
           IN IF doubled = None THEN Last(segs).len ELSE doubled)

\* Bin::add, the storage of a value that takes bytes: the data afterwards
\* and the pointer to the value
BinStore(segs, ty, base) ==
  LET found == FirstFit(segs, ty, 1)
  IN IF found # 0
       THEN LET start == ValueStart(segs[found], ty)
            IN [data |-> [segs EXCEPT ![found].len = start + ty.size],
                ptr |-> segs[found].base + start]
       ELSE LET start == Padding(base, ty.align)
            IN [data |-> Append(segs, [capacity |-> BinCapacity(segs, ty),
                                       len |-> start + ty.size,
                                       base |-> base,
                                       locked |-> FALSE]),
                ptr |-> base + start]

BinCall(op, v, ty) ==
  [op |-> op, prev |-> last.op, val |-> v, ty |-> ty, data |-> bin.data,
   entries |-> bin.destructors, drops |-> Len(dropLog), quiet |-> TRUE]

\* Bin::add
BinAdd ==
  /\ bin.live
  /\ nextVal <= SeqMaxAdds
  /\ nextVal' = nextVal + 1
  /\ \E ty \in env.types, base \in env.bases :
       /\ last' = BinCall("add", nextVal, ty)
       /\ IF ty.size = 0
            THEN /\ bin' = [bin EXCEPT !.destructors =
                      Append(@, [ptr |-> ty.align, ty |-> ty, val |-> nextVal])]
                 /\ fate' = [fate EXCEPT ![nextVal] = "registered"]
                 /\ UNCHANGED dropLog
            ELSE IF FirstFit(bin.data, ty, 1) = 0
                    /\ CheckedAdd(ty.size, ty.align) = None
              \* None => return: the value goes out of scope
              THEN /\ dropLog' = Append(dropLog, nextVal)
                   /\ fate' = [fate EXCEPT ![nextVal] = "overflow"]
                   /\ UNCHANGED bin
              ELSE /\ bin' = [bin EXCEPT
                        !.data = BinStore(bin.data, ty, base).data,
                        !.destructors =
                          Append(@, [ptr |-> BinStore(bin.data, ty, base).ptr,
                                     ty |-> ty, val |-> nextVal])]
                   /\ fate' = [fate EXCEPT ![nextVal] = "registered"]
                   /\ UNCHANGED dropLog
  /\ UNCHANGED <<arenaVars, th, gateVars, clears, restVars, owed>>

\* Bin::clear: destructors.drain(..) from the front, then storage.clear()
BinCleared(b) ==
  [b EXCEPT !.destructors = <<>>, !.data = ClearedData(b.data)]

\* a clear that empties the storages and runs no destructor
BinClearStoragesOnly ==
  /\ bin.live
  /\ clears < SeqMaxClears
  /\ clears' = clears + 1
  /\ last' = BinCall("clear", 0, NoType)
  /\ bin' = BinCleared(bin)
  /\ UNCHANGED <<arenaVars, dropLog, th, gateVars, nextVal, fate, restVars, owed>>

BinClear ==
  /\ bin.live
  /\ clears < SeqMaxClears
  /\ clears' = clears + 1
  /\ last' = BinCall("clear", 0, NoType)
  /\ dropLog' = dropLog \o Vals(bin.destructors)
  /\ bin' = BinCleared(bin)
  /\ UNCHANGED <<arenaVars, th, gateVars, nextVal, fate, restVars, owed>>

\* Bin::size: the sum of the storages' lengths
BinSize(segs) == SumSeq([i \in 1..Len(segs) |-> segs[i].len])

\* a Bin without its Drop impl: the fields are dropped, no destructor runs
BinDropNoClear ==
  /\ bin.live
  /\ last' = BinCall("drop", 0, NoType)
  /\ bin' = [bin EXCEPT !.live = FALSE]
  /\ UNCHANGED <<arenaVars, dropLog, th, gateVars, nextVal, clears, fate, restVars,
                 owed>>

\* impl Drop for Bin: self.clear(), and the fields are dropped
BinDrop ==
  /\ bin.live
  /\ last' = BinCall("drop", 0, NoType)
  /\ dropLog' = dropLog \o Vals(bin.destructors)
  /\ bin' = [BinCleared(bin) EXCEPT !.live = FALSE]
  /\ UNCHANGED <<arenaVars, th, gateVars, nextVal, clears, fate, restVars, owed>>

InitBin == InitInner

NextBin ==
  \/ BinAdd
  \/ BinClear
  \/ BinDrop

SpecBin == InitBin /\ [][NextBin]_vars

\* ------------------------------------------------------------- SpecSlice
\* one owner calls push, drain and into_iter on a ConcurrentSlice, as
\* concurrent_slice.rs's tests do

\* a slot that holds the value v
Item(v) == [ptr |-> 0, ty |-> NoType, val |-> v]

\* the slots [0, len) in the order of their indices
SliceItems(slice) == SubSeq(slice.slots, 1, slice.len)

\* a push that keeps the value when the slice is full
SlicePushedLoses(slice, v) ==
  IF slice.len = slice.capacity
    THEN [slice |-> slice, ok |-> FALSE, ret |-> <<>>]
    ELSE [slice |-> [slice EXCEPT !.len = slice.len + 1,
                                  !.slots[slice.len + 1] = Item(v)],
          ok |-> TRUE, ret |-> <<v>>]

\* ConcurrentSlice::push: the fetch_update fails when len == capacity and
\* the value is handed back in Err; otherwise index len is reserved and
\* written
SlicePushed(slice, v) ==
  IF slice.len = slice.capacity
    THEN [slice |-> slice, ok |-> FALSE, ret |-> <<v>>]
    ELSE [slice |-> [slice EXCEPT !.len = slice.len + 1,
                                  !.slots[slice.len + 1] = Item(v)],
          ok |-> TRUE, ret |-> <<v>>]

\* a drain that yields the last reserved slot first
SliceDrainedFromBack(slice) ==
  [slice |-> NewSlice(slice.capacity), ok |-> TRUE,
   ret |-> Vals(SliceDrain(slice, slice.len))]

\* ConcurrentSlice::drain: len becomes 0 and data[..old_len] is yielded from
\* the front, each cell left uninitialized
SliceDrained(slice) ==
  [slice |-> NewSlice(slice.capacity), ok |-> TRUE,
   ret |-> Vals(SliceItems(slice))]

\* the call that begins on the container, numbered n + 1
UnitCall(op, arg, was, r) ==
  [unit EXCEPT !.op = op, !.arg = arg, !.was = was, !.ret = r.ret,
               !.ok = r.ok, !.n = unit.n + 1]

\* slice.push(value): the value pushed is known by the number of the call
UnitSlicePush ==
  /\ unit.n < MaxUnitOps
  /\ LET r == SlicePushed(unit.slice, unit.n + 1)
     IN unit' = [UnitCall("push", unit.n + 1, unit.slice, r)
                   EXCEPT !.slice = r.slice]
  /\ UNCHANGED <<arenaVars, dropLog, th, gateVars, nextVal, clears, fate, env,
                 heap, seqVars>>

\* slice.drain().collect()
UnitSliceDrain ==
  /\ unit.n < MaxUnitOps
  /\ LET r == SliceDrained(unit.slice)
     IN unit' = [UnitCall("drain", 0, unit.slice, r) EXCEPT !.slice = r.slice]
  /\ UNCHANGED <<arenaVars, dropLog, th, gateVars, nextVal, clears, fate, env,
                 heap, seqVars>>

\* slice.into_iter().collect(): data[..len] from the front; the slice is
\* consumed, and ConcurrentSlice::new makes the next one
UnitSliceIntoIter ==
  /\ unit.n < MaxUnitOps
  /\ \E capacity \in 0..MaxSliceCap :
       unit' = [UnitCall("into_iter", 0, unit.slice,
                         [ok |-> TRUE, ret |-> Vals(SliceItems(unit.slice))])
                  EXCEPT !.slice = NewSlice(capacity)]
  /\ UNCHANGED <<arenaVars, dropLog, th, gateVars, nextVal, clears, fate, env,
                 heap, seqVars>>

\* ConcurrentSlice::new(capacity)
InitSlice ==
  /\ data = <<>>
  /\ destructors = <<>>
  /\ dropLog = <<>>
  /\ th = [t \in Threads |-> Idle]
  /\ readers = 0
  /\ writer = FALSE
  /\ clearFlag = FALSE
  /\ nextVal = 1
  /\ clears = 0
  /\ fate = [v \in Values |-> "none"]
  /\ env = [types |-> Types, bases |-> BaseAddrs]
  /\ bin = NewBin
  /\ last = NoCall
  /\ owed = {}
  /\ \E capacity \in 0..MaxSliceCap :
       unit = [NoUnit EXCEPT !.slice = NewSlice(capacity)]
  /\ heap = NoHeap

NextSlice ==
  \/ UnitSlicePush
  \/ UnitSliceDrain
  \/ UnitSliceIntoIter

SpecSlice == InitSlice /\ [][NextSlice]_vars

\* -------------------------------------------------------------- SpecList
\* one owner calls push, pop and into_iter on a ConcurrentList, as
\* concurrent_list.rs's tests do; the list is kept oldest first, its head
\* last

\* ConcurrentList::head
ListHead(list) == IF list = <<>> THEN <<>> ELSE <<Last(list)>>

\* ConcurrentList::iter: from the head along the next pointers
RECURSIVE ListIter(_)
ListIter(list) ==
  IF list = <<>> THEN <<>>
  ELSE <<Last(list)>> \o ListIter(SubSeq(list, 1, Len(list) - 1))

\* a pop that unlinks the oldest node
ListPoppedOldest(list) ==
  IF list = <<>>
    THEN [list |-> list, ok |-> FALSE, ret |-> <<>>]
    ELSE [list |-> Tail(list), ok |-> TRUE, ret |-> <<Head(list)>>]

\* ConcurrentList::pop: None on a null head; otherwise the head node is
\* unlinked and its value returned
ListPopped(list) ==
  IF list = <<>>
    THEN [list |-> list, ok |-> FALSE, ret |-> <<>>]
    ELSE [list |-> SubSeq(list, 1, Len(list) - 1), ok |-> TRUE,
          ret |-> <<Last(list)>>]

\* ConcurrentList::into_iter and drain: from_fn(pop) until None
RECURSIVE ListDrained(_)
ListDrained(list) ==
  IF ~ListPopped(list).ok THEN <<>>
  ELSE ListPopped(list).ret \o ListDrained(ListPopped(list).list)

\* list.push(value): the new node's next is the old head
UnitListPush ==
  /\ unit.n < MaxUnitOps
  /\ unit' = [UnitCall("push", unit.n + 1, unit.list,
                       [ok |-> TRUE, ret |-> <<unit.n + 1>>])
                EXCEPT !.list = Append(unit.list, unit.n + 1)]
  /\ UNCHANGED <<arenaVars, dropLog, th, gateVars, nextVal, clears, fate, env,
                 heap, seqVars>>

\* list.pop()
UnitListPop ==
  /\ unit.n < MaxUnitOps
  /\ LET r == ListPopped(unit.list)
     IN unit' = [UnitCall("pop", 0, unit.list, r) EXCEPT !.list = r.list]
  /\ UNCHANGED <<arenaVars, dropLog, th, gateVars, nextVal, clears, fate, env,
                 heap, seqVars>>

\* list.into_iter().collect(), and a new list; list.drain() leaves the same
UnitListIntoIter ==
  /\ unit.n < MaxUnitOps
  /\ unit' = [UnitCall("into_iter", 0, unit.list,
                       [ok |-> TRUE, ret |-> ListDrained(unit.list)])
                EXCEPT !.list = <<>>]
  /\ UNCHANGED <<arenaVars, dropLog, th, gateVars, nextVal, clears, fate, env,
                 heap, seqVars>>

InitList == InitInner

NextList ==
  \/ UnitListPush
  \/ UnitListPop
  \/ UnitListIntoIter

SpecList == InitList /\ [][NextList]_vars

\* ---------------------------------------------------------------- claims

\* the values handed to add so far
Handed == 1..(nextVal - 1)
\* the owner of SpecInner is between calls
OwnerIdle == th[Owner].pc = "idle"
\* the bytes in use in a list of storages
UsedBytes(segs) == SumSeq([i \in 1..Len(segs) |-> segs[i].len])
Capacities(segs) == [i \in 1..Len(segs) |-> segs[i].capacity]

\* C1 (SpecInner): N adds by one owner and then one clear run exactly N
\* destructors, one per value added, and none runs before the clear starts:
\* until the first clear runs the drop log is empty, and once the first clear
\* has returned, with no add since, the log holds each value handed once.
C1_AddsThenOneClear ==
  /\ (clears = 0 \/ (clears = 1 /\ th[Owner].pc = "inner_clear"))
       => dropLog = <<>>
  /\ (clears = 1 /\ last.op = "clear" /\ OwnerIdle)
       => /\ Len(dropLog) = nextVal - 1
          /\ \A v \in Handed : DropCount(v) = 1

\* five adds, of zero-sized and of sized values, and the clear has returned
C1_Witness ==
  /\ clears = 1 /\ last.op = "clear" /\ OwnerIdle
  /\ Len(last.entries) = 5
  /\ \E i, j \in 1..5 : last.entries[i].ty.size = 0
                        /\ last.entries[j].ty.size > 0

\* C3 (SpecInner): the add of a zero-sized value takes no byte storage (the
\* storages are as before the call, in number and in length), registers one
\* destructor entry for the value, and runs no destructor; the next clear
\* runs the value's destructor, once.
C3_ZeroSizedAdd ==
  /\ (last.op = "add" /\ last.ty.size = 0)
       => /\ data = last.data
          /\ Len(dropLog) = last.drops
          /\ DropCount(last.val) = 0
          /\ OwnerIdle =>
               /\ Len(VecDrain(destructors)) = Len(last.entries) + 1
               /\ VecDrain(destructors)[1] =
                    [ptr |-> last.ty.align, ty |-> last.ty, val |-> last.val]
  /\ (last.op = "clear" /\ OwnerIdle)
       => \A i \in 1..Len(last.entries) :
            last.entries[i].ty.size = 0 => DropCount(last.entries[i].val) = 1

\* a zero-sized value was added with a storage in use, and then cleared
C3_Witness ==
  /\ last.op = "clear" /\ OwnerIdle
  /\ last.prev = "add"
  /\ UsedBytes(last.data) > 0
  /\ Len(last.entries) >= 2
  /\ last.entries[1].ty.size = 0
  /\ DropCount(last.entries[1].val) = 1

\* C8 (SpecBin), as claimed: Bin::size() right after a clear() equals
\* Bin::size() right before it.
C8_SizeKeptByClear ==
  last.op = "clear" => BinSize(bin.data) = BinSize(last.data)

\* C9 (SpecBin): dropping the Bin clears it: every value stored at that
\* point has had its destructor run by the drop, once, no entry remains, and
\* every value ever handed to the bin has been destructed exactly once.
C9_DropClears ==
  ~bin.live
    => /\ last.op = "drop"
       /\ bin.destructors = <<>>
       /\ dropLog = SubSeq(dropLog, 1, last.drops) \o Vals(last.entries)
       /\ \A v \in Handed : DropCount(v) = 1

\* the Bin was dropped with three values stored and others cleared before
C9_Witness ==
  /\ ~bin.live
  /\ Len(last.entries) = 3
  /\ last.drops > 0

\* C10 (SpecInner): when clear has returned, the destructor list is empty
\* and every storage is at length 0, while the storages are as many as
\* before with the capacities they had; a clear that follows a clear runs no
\* destructor and changes nothing.
C10_ClearResets ==
  (last.op = "clear" /\ OwnerIdle)
    => /\ destructors = <<>>
       /\ \A i \in 1..Len(data) : data[i].len = 0
       /\ Capacities(data) = Capacities(last.data)
       /\ Len(dropLog) = last.drops + Len(last.entries)
       /\ last.prev = "clear"
            => /\ Len(dropLog) = last.drops
               /\ data = last.data

\* a clear of two storages in use has returned, and a second clear after it
C10_Witness ==
  /\ last.op = "clear" /\ OwnerIdle
  /\ \/ /\ Len(last.data) = 2
        /\ \A i \in 1..2 : last.data[i].len > 0
        /\ Len(last.entries) >= 2
     \/ /\ last.prev = "clear"
        /\ Len(data) = 2
        /\ dropLog # <<>>

\* the labels at which a thread holds shared access, holds exclusive access,
\* is inside try_clear
AddPcs == {"store", "scan", "fit", "add_storage", "storage_cas", "vec_head",
           "slice_push", "slot_write", "vec_grow", "vec_cas", "release_read"}
ClearPcs == {"tc_flag", "inner_clear", "release_write"}
TryClearPcs == {"tc_load", "try_write"} \cup ClearPcs
InAdd(t) == th[t].pc \in AddPcs
InClear(t) == th[t].pc \in ClearPcs
\* no call on the shared bin is in flight
Quiescent == \A t \in Threads : th[t].pc = "idle"
\* the value has an entry in the destructor list
Stored(v) == \E e \in Range(VecDrain(destructors)) : e.val = v

C7_AddThenClear ==
  /\ last.op = "add"
       => /\ DropCount(last.val) = 0
          /\ \E i \in 1..Len(bin.destructors) :
               bin.destructors[i].val = last.val
  /\ (last.op = "clear" /\ last.prev = "add")
       => /\ DropCount(nextVal - 1) = 1
          /\ \E i \in (last.drops + 1)..Len(dropLog) : dropLog[i] = nextVal - 1

\* the example of the crate documentation: one sized value, add, clear
C7_Witness ==
  /\ last.op = "clear" /\ last.prev = "add"
  /\ Len(last.entries) = 1
  /\ last.entries[1].ty.size > 0
  /\ dropLog = <<1>>

\* the steps of one thread
ThreadStep(t) ==
  \/ TryRead(t) \/ ReleaseRead(t) \/ ClearCall(t) \/ TcLoad(t) \/ TryWrite(t)
  \/ TcFlag(t) \/ ReleaseWrite(t) \/ InnerStep(t)

Descending(s) == \A i, j \in 1..Len(s) : i < j => s[i] > s[j]
\* the sequence runs from its least member up, no member twice
Ascending(s) == \A i, j \in 1..Len(s) : i < j => s[i] < s[j]

\* C15, as stated (SpecSlice): drain() and into_iter() of a slice yield the
\* last reserved slot first.
C15_LastReservedFirst ==
  unit.op \in {"drain", "into_iter"} => Descending(unit.ret)

\* C15, amended (SpecSlice): drain() and into_iter() of a slice yield the
\* slots [0, len) in the order they were reserved, the first reserved
\* first, each once; drain leaves the length 0 and the capacity as it was.
C15_ReservationOrder ==
  /\ unit.op \in {"drain", "into_iter"}
       => /\ Len(unit.ret) = unit.was.len
          /\ \A i \in 1..Len(unit.ret) : unit.ret[i] = unit.was.slots[i].val
          /\ Ascending(unit.ret)
  /\ unit.op = "drain"
       => /\ unit.slice.len = 0
          /\ unit.slice.capacity = unit.was.capacity

\* a full slice of three is drained: the three values come out first
\* reserved first
C15_Witness ==
  /\ unit.op = "drain"
  /\ unit.ret = <<1, 2, 3>>
  /\ unit.slice.len = 0

\* C16 (SpecSlice): a push into a slice whose length equals its capacity,
\* capacity 0 included, fails, hands back the value passed and leaves the
\* slice as it was; any other push takes the next slot and leaves the
\* earlier ones alone; the length never exceeds the capacity, and a drain
\* makes room for capacity pushes again.
C16_FullPushFails ==
  /\ unit.slice.len <= unit.slice.capacity
  /\ (unit.op = "push" /\ unit.was.len = unit.was.capacity)
       => /\ ~unit.ok
          /\ unit.ret = <<unit.arg>>
          /\ unit.slice = unit.was
  /\ (unit.op = "push" /\ unit.was.len < unit.was.capacity)
       => /\ unit.ok
          /\ unit.slice.len = unit.was.len + 1
          /\ unit.slice.capacity = unit.was.capacity
          /\ unit.slice.slots[unit.slice.len].val = unit.arg
          /\ \A i \in 1..unit.was.len :
               unit.slice.slots[i] = unit.was.slots[i]
  /\ unit.op = "drain"
       => unit.slice.len = 0 /\ unit.slice.capacity = unit.was.capacity

\* a slice of two was filled, refused a third push, was drained, was
\* filled again, and refuses the seventh call's value
C16_Witness ==
  /\ unit.op = "push" /\ ~unit.ok
  /\ unit.n = 7
  /\ unit.slice.capacity = 2
  /\ Vals(SliceItems(unit.slice)) = <<5, 6>>

\* C17 (SpecList): after a push head() is the value pushed and iter() lists
\* it before all the earlier values; pop on an empty list returns nothing;
\* any other pop returns the most recently pushed value still in the list
\* and leaves the others; into_iter yields every value once, newest first.
C17_NewestFirst ==
  /\ Descending(ListIter(unit.list))
  /\ unit.op = "push"
       => /\ ListHead(unit.list) = <<unit.arg>>
          /\ ListIter(unit.list) = <<unit.arg>> \o ListIter(unit.was)
  /\ (unit.op = "pop" /\ unit.was = <<>>)
       => ~unit.ok /\ unit.ret = <<>> /\ unit.list = <<>>
  /\ (unit.op = "pop" /\ unit.was # <<>>)
       => /\ unit.ok
          /\ Len(unit.ret) = 1
          /\ \A v \in Range(unit.was) : v <= unit.ret[1]
          /\ Range(unit.list) = Range(unit.was) \ {unit.ret[1]}
          /\ Len(unit.list) = Len(unit.was) - 1
  /\ unit.op = "into_iter"
       => /\ Descending(unit.ret)
          /\ Range(unit.ret) = Range(unit.was)
          /\ Len(unit.ret) = Len(unit.was)
          /\ unit.list = <<>>

\* pushes of 1, 2, 3 and later pops: the sixth call pops 1, the last value
C17_Witness ==
  /\ unit.op = "pop"
  /\ unit.n = 6
  /\ unit.ret = <<1>>
  /\ unit.list = <<>>
  /\ unit.was = <<1>>

\* the entries in the destructor list, of Inner or of the Bin of lib.rs
StoredCount == VecLen(destructors) + Len(bin.destructors)
\* the values added and stored whose destructor has not run
Live == {v \in Handed : fate[v] = "registered" /\ DropCount(v) = 0}

\* C11 (SpecInner): whenever no add is in flight the destructor list has as
\* many entries as values were added and stored since the last clear; an
\* add that has returned has made it one longer than it was when the add
\* began, an add in flight has not made it shorter, and a clear that has
\* returned has left it empty.
C11_LenIsStoredCount ==
  /\ OwnerIdle => StoredCount = Cardinality(Live)
  /\ (OwnerIdle /\ last.op = "add") => StoredCount = Len(last.entries) + 1
  /\ last.op = "add" => StoredCount >= Len(last.entries)
  /\ (OwnerIdle /\ last.op = "clear") => StoredCount = 0

\* three adds, a clear, and two adds: two entries, three destructors run
C11_Witness ==
  /\ OwnerIdle
  /\ clears = 1
  /\ last.op = "add"
  /\ StoredCount = 2
  /\ Len(dropLog) = 3

\* the destructors the last clear has run, in the order it ran them
ClearedNow == SubSeq(dropLog, last.drops + 1, Len(dropLog))

\* C13, as stated (SpecBin): a clear that has returned has run the
\* destructors of the values added one after another most recently added
\* first, the first added last.
C13_MostRecentFirst ==
  (OwnerIdle /\ last.op = "clear") => Descending(ClearedNow)

\* C14 (SpecInner): with no push in flight, draining the destructor vector
\* yields every value pushed since the last clear exactly once, the most
\* recently pushed first, the head slice before the older slices, and the
\* vector's len is the number of those pushes.
C14_DrainNewestFirst ==
  OwnerIdle =>
    LET yielded == Vals(VecDrain(destructors))
    IN /\ Descending(yielded)
       /\ Range(yielded) = Live
       /\ Len(yielded) = Cardinality(Live)
       /\ VecLen(destructors) = Cardinality(Live)
       /\ \A i \in 1..Len(destructors) : \A j \in 1..Len(destructors) :
            \A a \in 1..destructors[i].len : \A b \in 1..destructors[j].len :
              (i < j \/ (i = j /\ a < b))
                => destructors[i].slots[a].val < destructors[j].slots[b].val

\* five pushes, one more than the first slice holds: drained 5, 4, 3, 2, 1
C14_Witness ==
  /\ OwnerIdle
  /\ Len(destructors) = 2
  /\ Vals(VecDrain(destructors)) = <<5, 4, 3, 2, 1>>

\* C18, as stated (SpecBin): size() is the sum of the capacities of the
\* storages whatever their lengths, is at least the bytes in use, and is
\* never less after a call than it was when the call began.
C18_SizeIsCapacitySum ==
  /\ BinSize(bin.data) = SumSeq(Capacities(bin.data))
  /\ BinSize(bin.data) >= UsedBytes(bin.data)
  /\ last.op \in {"add", "clear"} => BinSize(bin.data) >= BinSize(last.data)

\* C19, as stated (SpecBin): an add that finds no storage with room makes a
\* new one, linked as the most recent, whose capacity is the greater of size
\* + alignment and twice the capacity of the storage that was the most
\* recent (1024 when there was none), and places the value at the first
\* aligned index of the new buffer.
C19_NewStorageCapacity ==
  (last.op = "add" /\ Len(bin.data) = Len(last.data) + 1)
    => LET new == Last(bin.data)
           entry == Last(bin.destructors)
       IN /\ new.capacity =
               Max(last.ty.size + last.ty.align,
                   IF last.data = <<>> THEN 1024
                   ELSE 2 * Last(last.data).capacity)
          /\ new.capacity >= last.ty.size + last.ty.align
          /\ SubSeq(bin.data, 1, Len(last.data)) = last.data
          /\ entry.val = last.val
          /\ entry.ptr = new.base + Padding(new.base, last.ty.align)
          /\ new.len = Padding(new.base, last.ty.align) + last.ty.size

\* the sized values that store has given a location and no clear has dropped:
\* those a thread is registering and those registered, with the pointer held
\* for each
PlacedPcs == {"vec_head", "slice_push", "slot_write", "vec_grow", "vec_cas"}
Placed ==
  {[val |-> e.val, ptr |-> e.ptr, size |-> e.ty.size] :
     e \in {x \in Range(VecDrain(destructors)) : x.val # 0 /\ x.ty.size > 0}}
  \cup
  {[val |-> th[t].val, ptr |-> th[t].ptr, size |-> th[t].ty.size] :
     t \in {u \in Threads : th[u].pc \in PlacedPcs /\ th[u].ty.size > 0}}

\* the bytes [ptr, ptr + size) lie within the bytes in use of one storage
InStorage(p, s) == s.base <= p.ptr /\ p.ptr + p.size <= s.base + s.len

\* C12 (SpecShared): under every interleaving of two threads' adds, no two
\* stored, not yet cleared values overlap, each lies within the bytes in use
\* of one storage, a value keeps its pointer for as long as it is stored, and
\* a storage keeps its address and capacity and gives up bytes in use only
\* when a clear has emptied the bin; so the bytes written for a value are
\* not written again before the next clear.
C12_StableDisjoint ==
  /\ [](/\ \A p, q \in Placed :
             p # q => (p.ptr + p.size <= q.ptr \/ q.ptr + q.size <= p.ptr)
        /\ \A p \in Placed : \E i \in 1..Len(data) : InStorage(p, data[i]))
  /\ [][/\ \A p \in Placed : (\E q \in Placed' : q.val = p.val) => p \in Placed'
        /\ Len(data') >= Len(data)
        /\ \A i \in 1..Len(data) :
             /\ data'[i].base = data[i].base
             /\ data'[i].capacity = data[i].capacity
             /\ data'[i].len < data[i].len => Placed' = {}]_vars

\* both threads hold a location in the same storage, and a third value is
\* registered there already
C12_Witness ==
  /\ \A t \in Adders : th[t].pc \in PlacedPcs /\ th[t].ty.size > 0
  /\ Cardinality(Placed) = 3
  /\ \E i \in 1..Len(data) : \A p \in Placed : InStorage(p, data[i])

\* the capacities of the destructors' slices, the oldest first
SliceCaps == [i \in 1..Len(destructors) |-> destructors[i].capacity]
\* the values in the destructors' written slots
Pushed == Vals(VecDrain(destructors))

\* C20, as stated (SpecShared): the oldest slice has capacity 4 and every
\* other slice exactly twice the capacity of the slice linked just before it.
C20_ExactDoubling ==
  \A i \in 1..Len(SliceCaps) :
    SliceCaps[i] = (IF i = 1 THEN 4 ELSE 2 * SliceCaps[i - 1])

\* C20, amended (SpecShared): no value is lost or duplicated: a value whose
\* add has returned is in exactly one slot or has been dropped by a clear,
\* and no other value is in a slot. A push that finds the head full or absent
\* makes a slice of capacity 4 when it sees no head and of twice the capacity
\* of the head it sees otherwise, and links that slice at the head, above
\* whatever was linked meanwhile. So the oldest slice has capacity 4 and
\* every slice has capacity 4 or twice the capacity of a slice linked before
\* it, which two racing pushes can make equal to the capacity of the slice
\* just before.
C20_DoublingFromSeenHead ==
  /\ [](/\ \A v \in Values :
             Count(Pushed, v) + DropCount(v) =
               (IF fate[v] = "registered" THEN 1 ELSE 0)
        /\ \A i \in 1..Len(SliceCaps) :
             \/ SliceCaps[i] = 4
             \/ i > 1 /\ \E j \in 1..(i - 1) : SliceCaps[i] = 2 * SliceCaps[j])
  /\ [][\A t \in Threads :
          /\ (th[t].pc = "vec_grow" /\ th'[t].pc = "vec_cas")
               => th'[t].newslice.capacity =
                    (IF destructors = <<>> THEN 4
                     ELSE 2 * Last(destructors).capacity)
          /\ (th[t].pc = "vec_cas" /\ th'[t].pc = "vec_head")
               => /\ destructors' = Append(destructors, th[t].newslice)
                  /\ th[t].newslice.len = 0]_vars

\* two pushes that both saw no head have each linked a slice of 4, the
\* second of them has filled, and the next push has linked a slice of 8
C20_Witness ==
  /\ SliceCaps = <<4, 4, 8>>
  /\ VecLen(destructors) = 5
  /\ \A t \in Threads : th[t].pc = "idle"
  /\ \A v \in 1..5 : Count(Pushed, v) = 1

\* the threads that have reserved a slot and not yet written it
Writing == {t \in Threads : th[t].pc = "slot_write"}

\* C21 (FairShared): threads that race to grow the destructor vector may
\* each link a slice, and no value is lost. A push that has reserved a slot
\* holds a slot of a linked slice, below its length, not yet written, and
\* held by no other push; it writes its own value there and touches no other
\* slot. When no push is in flight every slot below a length is written,
\* and iterating yields the values pushed and not yet cleared, each once.
\* Every push returns.
C21_RacingGrowersLoseNothing ==
  /\ [](/\ \A t \in Writing :
             /\ th[t].vh \in 1..Len(destructors)
             /\ th[t].idx \in 1..destructors[th[t].vh].len
             /\ destructors[th[t].vh].slots[th[t].idx] = NoEntry
             /\ \A u \in Writing \ {t} :
                  <<th[u].vh, th[u].idx>> # <<th[t].vh, th[t].idx>>
        /\ Quiescent =>
             /\ Len(Pushed) = Cardinality(Live)
             /\ \A v \in Live : Count(Pushed, v) = 1)
  /\ [][\A t \in Writing :
          th'[t].pc # "slot_write" =>
            destructors' = [destructors EXCEPT
              ![th[t].vh].slots[th[t].idx] =
                 [ptr |-> th[t].ptr, ty |-> th[t].ty, val |-> th[t].val]]]_vars
  /\ \A t \in Adders : (th[t].pc \in AddPcs) ~> (th[t].pc = "idle")

\* four pushes have filled the first slice, and two more raced to grow: each
\* linked a slice of 8, and all six values are there
C21_Witness ==
  /\ Quiescent
  /\ SliceCaps = <<4, 8, 8>>
  /\ \A v \in 1..6 : Count(Pushed, v) = 1
  /\ Len(Pushed) = 6

\* the one slice of SpecSliceShared
TheSlice == destructors[1]
\* the pushes whose fetch_update has run: those begun, less those about to
\* run it
Attempts == (nextVal - 1) - Cardinality({t \in Threads : th[t].pc = "slice_push"})
\* the slots of the slice that are written
Written == {i \in 1..TheSlice.capacity : TheSlice.slots[i] # NoEntry}

\* C22 (SpecSliceShared): under every interleaving of three threads' pushes
\* into one slice of capacity N, len never exceeds N and is the lesser of N
\* and the number of attempts made; each push that reserved holds an index
\* below len that no other push holds and that is not yet written, the
\* written slots are below len and hold distinct values, a refused push
\* found the slice full, and when no push is in flight every slot below len
\* is written.
C22_ReservationsWithinCapacity ==
  /\ TheSlice.len <= TheSlice.capacity
  /\ TheSlice.len = (IF Attempts < TheSlice.capacity THEN Attempts
                     ELSE TheSlice.capacity)
  /\ \A t \in Writing :
       /\ th[t].idx \in 1..TheSlice.len
       /\ th[t].idx \notin Written
       /\ \A u \in Writing \ {t} : th[u].idx # th[t].idx
  /\ \A i \in Written :
       /\ i <= TheSlice.len
       /\ \A j \in Written \ {i} : TheSlice.slots[j].val # TheSlice.slots[i].val
  /\ Written \cup {th[t].idx : t \in Writing} = 1..TheSlice.len
  /\ \A t \in Threads : th[t].pc = "vec_grow" => TheSlice.len = TheSlice.capacity
  /\ Quiescent => Written = 1..TheSlice.len

\* a slice of three has had five pushes: three hold slots, the first not yet
\* written and the third written, and two were refused
C22_Witness ==
  /\ TheSlice.capacity = 3
  /\ Attempts = 5
  /\ Written = {2, 3}
  /\ Cardinality({v \in Values : fate[v] = "refused"}) = 2

\* the nodes reached from a pointer by following next, at most n of them
RECURSIVE Walk(_, _)
Walk(node, n) ==
  IF node = 0 \/ n = 0 THEN <<>>
  ELSE <<node>> \o Walk(heap.next[node], n - 1)
\* the list from its head; one node more than were ever pushed shows a cycle
Reachable == Walk(heap.head, nextVal)
\* the nodes whose push has returned
Linked == {v \in Handed : fate[v] = "registered"}
\* where a node comes in the list from its head
Position(v) == CHOOSE i \in 1..Len(Reachable) : Reachable[i] = v

\* C23 (SpecListShared): under every interleaving of three threads' pushes
\* the list reached from head is acyclic and holds exactly the nodes whose
\* push has returned, each once; of two nodes pushed by the same thread the
\* later comes first; and a compare-exchange that fails changes neither the
\* head nor any next pointer.
C23_NoNodeLost ==
  /\ [](/\ Len(Reachable) = Cardinality(Range(Reachable))
        /\ Range(Reachable) = Linked
        /\ \A v, w \in Linked :
             (heap.by[v] = heap.by[w] /\ v < w) => Position(w) < Position(v))
  /\ [][\A t \in Threads :
          (th[t].pc = "list_cas" /\ th'[t].pc = "list_link") => heap' = heap]_vars

\* three threads have pushed four nodes, and the node pushed first was linked
\* last, after a failed exchange
C23_Witness ==
  /\ Quiescent
  /\ Len(Reachable) = 4
  /\ heap.head = 1
  /\ heap.by[4] = heap.by[2]

\* the pointer is aligned for the type and the value's bytes lie within the
\* storage's buffer
AlignedWithin(ptr, ty, s) ==
  /\ ptr % ty.align = 0
  /\ s.base <= ptr
  /\ ptr + ty.size <= s.base + s.capacity
\* the sized values that have an entry in the destructor list
SizedEntries ==
  {e \in Range(VecDrain(destructors)) : e # NoEntry /\ e.ty.size > 0}

\* C24 (SpecInner): every pointer store gives a sized value is aligned for
\* its type and its bytes lie within the buffer of one storage, for a value
\* in a storage being linked, a value being registered and a value
\* registered alike. A storage is reused only if used + padding + size <=
\* capacity, the value then starts at used + padding, and the storage's
\* length becomes start + size; a storage without that room keeps its
\* length; a new storage is linked with the length start + size.
C24_AlignedWithinCapacity ==
  /\ [](/\ \A t \in Threads :
             (th[t].pc = "storage_cas")
               => /\ AlignedWithin(th[t].ptr, th[t].ty, th[t].newseg)
                  /\ th[t].newseg.len =
                       (th[t].ptr - th[t].newseg.base) + th[t].ty.size
        /\ \A t \in Threads :
             (th[t].pc \in PlacedPcs /\ th[t].ty.size > 0)
               => \E i \in 1..Len(data) :
                    AlignedWithin(th[t].ptr, th[t].ty, data[i])
        /\ \A e \in SizedEntries :
             \E i \in 1..Len(data) : AlignedWithin(e.ptr, e.ty, data[i]))
  /\ [][\A t \in Threads :
          (th[t].pc = "fit")
            => LET s == data[th[t].seg]
                   ty == th[t].ty
                   start == s.len + ((ty.align - ((s.base + s.len) % ty.align))
                                       % ty.align)
               IN IF th'[t].pc = "vec_head"
                    THEN /\ start + ty.size <= s.capacity
                         /\ th'[t].ptr = s.base + start
                         /\ data'[th[t].seg].len = start + ty.size
                    ELSE /\ start + ty.size > s.capacity
                         /\ data'[th[t].seg].len = s.len]_vars

\* an 8-aligned value lies behind a 4-aligned one in the second storage,
\* four bytes of padding between them
C24_Witness ==
  /\ OwnerIdle
  /\ Len(data) = 2
  /\ \E e, f \in SizedEntries :
       /\ e.ty.align = 4 /\ f.ty.align = 8
       /\ AlignedWithin(e.ptr, e.ty, data[2])
       /\ f.ptr = e.ptr + e.ty.size + 4
       /\ data[2].len = (f.ptr - data[2].base) + f.ty.size


\* the threads that hold the lock of the i-th storage
Holders(i) == {t \in Threads : th[t].pc = "fit" /\ th[t].seg = i}

\* C25 (FairShared): the scan never waits for a storage's lock. A thread
\* inside add can always take its next step, whatever the other thread
\* holds. A storage is locked exactly while one thread is deciding whether
\* it fits, so one thread at most holds it, and only that thread's placement
\* or a clear changes its length. A scan that meets a locked storage passes
\* to the next one and leaves the storages alone, even if the locked one
\* has room; a scan that has passed every storage goes on to allocate a new
\* one. Every add returns.
C25_ScanNeverWaits ==
  /\ [](/\ \A t \in Adders : th[t].pc \in AddPcs => ENABLED InnerStep(t)
        /\ \A i \in 1..Len(data) :
             /\ Cardinality(Holders(i)) <= 1
             /\ data[i].locked <=> Holders(i) # {})
  /\ [][/\ \A t \in Threads :
             (th[t].pc = "scan" /\ th'[t] # th[t])
               => IF th[t].cur = 0
                    THEN th'[t].pc = "add_storage"
                    ELSE IF data[th[t].cur].locked
                      THEN /\ th'[t].pc = "scan"
                           /\ th'[t].cur = th[t].cur - 1
                           /\ data' = data
                      ELSE /\ th'[t].pc = "fit"
                           /\ th'[t].seg = th[t].cur
        /\ \A i \in 1..Len(data) :
             data'[i].len # data[i].len
               => \/ \E t \in Holders(i) : th'[t].pc = "vec_head"
                  \/ \E t \in Threads : th[t].pc = "inner_clear"]_vars
  /\ \A t \in Adders : (th[t].pc = "scan") ~> (th[t].pc = "idle")

\* one thread holds the lock of the only storage, which has room for the
\* other thread's value, and the other thread has passed it and is about to
\* allocate a new storage
C25_Witness ==
  /\ Len(data) = 1
  /\ Holders(1) = {"a2"}
  /\ th["a1"].pc = "add_storage"
  /\ Fits(data[1], th["a1"].ty)

\* the add that last began reached add_storage: its value takes bytes and
\* no storage had room for it
ReachedAddStorage ==
  /\ last.ty.size > 0
  /\ \A i \in 1..Len(last.data) : ~Fits(last.data[i], last.ty)
\* size + align does not fit a usize
SizeOverflows == last.ty.size + last.ty.align > UsizeMax
\* twice the head storage's capacity does not fit a usize
DoublingOverflows ==
  last.data # <<>> /\ 2 * Last(last.data).capacity > UsizeMax

====
